---- MODULE Spec2Model ----
(***************************************************************************)
(* Model of the two deploy-trigger Lambda handlers of the blog repository: *)
(*   src/lambda/app.py        the config-driven handler                    *)
(*   src/infra/lambda/app.py  the trigger-by-name handler                  *)
(*                                                                         *)
(* One behaviour is one invocation of one handler.  The handler's inputs   *)
(* (event, environment) are fixed by Init; the outcomes of the external    *)
(* services (S3 get, CodeBuild start_build) are chosen when the handler    *)
(* reaches the call.                                                       *)
(*                                                                         *)
(* A Python str is a sequence of pieces.  A piece is one character, or a   *)
(* run of literal text that holds no '"', no '\' and no '/'.               *)
(***************************************************************************)
EXTENDS Integers, Sequences

\* ------------------------------ bounds ----------------------------------
\* longest object key of the first change record
MaxKeyLen == 3
\* longest object key of the records after the first
MaxTailKeyLen == 1
\* most change records in one notification
MaxRecords == 2

\* ------------------------------ strings ---------------------------------
RECURSIVE SeqsUpTo(_, _)
SeqsUpTo(S, n) ==
    IF n = 0 THEN {<<>>}
    ELSE LET shorter == SeqsUpTo(S, n - 1)
         IN  shorter \cup {Append(s, c) : s \in shorter, c \in S}

\* str.split(s, "/"), as CPython computes it: always at least one segment
RECURSIVE SplitAcc(_, _, _)
SplitAcc(s, cur, acc) ==
    IF s = <<>> THEN Append(acc, cur)
    ELSE IF Head(s) = "/" THEN SplitAcc(Tail(s), <<>>, Append(acc, cur))
    ELSE SplitAcc(Tail(s), Append(cur, Head(s)), acc)

Split(s) == SplitAcc(s, <<>>, <<>>)

\* json.dumps of a str: quoted, with '"' and '\' escaped
RECURSIVE JsonEscape(_)
JsonEscape(s) ==
    IF s = <<>> THEN <<>>
    ELSE (IF Head(s) \in {"\"", "\\"} THEN <<"\\", Head(s)>> ELSE <<Head(s)>>)
         \o JsonEscape(Tail(s))

\* faulty variant: quoted, nothing escaped
JsonDumpsRaw(s) == <<"\"">> \o s \o <<"\"">>

JsonDumps(s) == <<"\"">> \o JsonEscape(s) \o <<"\"">>

\* ------------------------- the YAML configuration -----------------------
\* A configuration file is a sequence of lines:
\*   [t |-> "key", k |-> K]              the top-level line   K:
\*   [t |-> "entry", k |-> S, v |-> P]   the indented line      S: P
\*   [t |-> "bad"]                       a line that is not YAML
KeyLine(k) == [t |-> "key", k |-> k]
EntryLine(k, v) == [t |-> "entry", k |-> k, v |-> v]
BadLine == [t |-> "bad"]

SiteBuild == <<"site-build">>
InfraBuild == <<"infra", "\"", "\\", "build">>

\* the configuration files the bucket may hold
ConfigFiles ==
    { <<KeyLine("Folder"), EntryLine(<<"s">>, SiteBuild), EntryLine(<<"i">>, InfraBuild)>>,
      <<KeyLine("Other"), EntryLine(<<"i">>, SiteBuild),
        KeyLine("Folder"), EntryLine(<<"s", "i">>, InfraBuild)>>,
      <<KeyLine("Other"), EntryLine(<<"s">>, SiteBuild)>>,
      <<KeyLine("Folder")>>,
      <<BadLine>> }

\* the value of a Python object the handler holds: a dict, None, or no value
PyNone == [py |-> "None"]
PyDict(items) == [py |-> "dict", items |-> items]
PyStr(s) == [py |-> "str", s |-> s]
YAMLError == [py |-> "YAMLError"]

\* the lines of the block that opens at line i: up to the next top-level line
RECURSIVE BlockEnd(_, _)
BlockEnd(lines, j) ==
    IF j > Len(lines) \/ lines[j].t # "entry" THEN j - 1 ELSE BlockEnd(lines, j + 1)

BlockValue(lines, i) ==
    LET last == BlockEnd(lines, i + 1)
    IN  IF last = i THEN PyNone
        ELSE PyDict([seg \in {lines[j].k : j \in (i + 1)..last} |->
                  LET j == CHOOSE j \in (i + 1)..last :
                               /\ lines[j].k = seg
                               /\ \A m \in (j + 1)..last : lines[m].k # seg
                  IN  PyStr(lines[j].v)])

\* yaml.safe_load(config_binary)
SafeLoad(lines) ==
    IF \E i \in 1..Len(lines) : lines[i].t = "bad" THEN YAMLError
    ELSE IF lines = <<>> THEN PyNone
    ELSE LET tops == {i \in 1..Len(lines) : lines[i].t = "key"}
         IN  PyDict([k \in {lines[i].k : i \in tops} |->
                 LET i == CHOOSE i \in tops :
                              /\ lines[i].k = k
                              /\ \A m \in tops : m > i => lines[m].k # k
                 IN  BlockValue(lines, i)])

\* obj[key] of Python: the value, or the exception it raises
KeyErrorExc == [py |-> "KeyError"]
TypeErrorExc == [py |-> "TypeError"]
IndexErrorExc == [py |-> "IndexError"]
IsException(v) == v.py \in {"KeyError", "TypeError", "IndexError", "YAMLError"}

\* faulty variant: a missing key gives the empty string, as dict.get(key, "") would
GetItemOrDefault(obj, key) ==
    IF obj.py # "dict" THEN TypeErrorExc
    ELSE IF key \notin DOMAIN obj.items THEN PyStr(<<>>)
    ELSE obj.items[key]

GetItem(obj, key) ==
    IF IsException(obj) THEN obj
    ELSE IF obj.py # "dict" THEN TypeErrorExc
    ELSE IF key \notin DOMAIN obj.items THEN KeyErrorExc
    ELSE obj.items[key]

\* ------------------------------ the event -------------------------------
KeyChars == {"s", "i", "/"}

S3Record(key) == [s3 |-> [object |-> [key |-> key]]]
\* a record of another shape: it has no "s3" entry
MalformedRecord == [eventSource |-> "aws:sns"]

FirstRecords == {S3Record(k) : k \in SeqsUpTo(KeyChars, MaxKeyLen)} \cup {MalformedRecord}
TailRecords == {S3Record(k) : k \in SeqsUpTo(KeyChars, MaxTailKeyLen)} \cup {MalformedRecord}

Events ==
    {[Records |-> <<>>]} \cup
    {[Records |-> <<r>> \o tail] :
        r \in FirstRecords,
        tail \in IF MaxRecords = 0 THEN {<<>>} ELSE SeqsUpTo(TailRecords, MaxRecords - 1)}

\* faulty variant: the last record is read, not the first
LastObjectKey(ev) ==
    IF Len(ev.Records) = 0 THEN IndexErrorExc
    ELSE IF "s3" \notin DOMAIN ev.Records[Len(ev.Records)] THEN KeyErrorExc
    ELSE PyStr(ev.Records[Len(ev.Records)].s3.object.key)

\* event['Records'][0]['s3']['object']['key']
FirstObjectKey(ev) ==
    IF Len(ev.Records) = 0 THEN IndexErrorExc
    ELSE IF "s3" \notin DOMAIN ev.Records[1] THEN KeyErrorExc
    ELSE PyStr(ev.Records[1].s3.object.key)

\* faulty variant: the last segment, [-1]
BaseFolderLast(change_file) == Split(change_file)[Len(Split(change_file))]

\* str.split(change_file, "/")[0]
BaseFolder(change_file) == Split(change_file)[1]

\* ------------------------------ responses -------------------------------
LambdaResponse(isBase64Encoded, statusCode, body) ==
    [isBase64Encoded |-> isBase64Encoded, statusCode |-> statusCode, body |-> body]

\* the handler has not returned
NoResponse == [isBase64Encoded |-> FALSE, statusCode |-> 0, body |-> <<>>]

\* the statuses start_build may report
BuildStatuses == {"SUCCEEDED", "IN_PROGRESS", "FAILED", "TIMED_OUT"}

\* src/lambda/app.py, the except branch
FailedToReadConfig(key, bucket) ==
    LambdaResponse(FALSE, 500,
        JsonDumps(<<"Failed to read config file '">> \o key
                  \o <<"' from bucket '">> \o bucket \o <<"'.">>))

\* faulty variant: IN_PROGRESS is not accepted
ConfigBuildResponseStrict(project, status) ==
    IF status \notin {"SUCCEEDED"}
    THEN LambdaResponse(FALSE, 500,
             JsonDumps(<<"Failed to CodeBuild project '">> \o project
                       \o <<"', build status returned '", status, "'">>))
    ELSE LambdaResponse(FALSE, 200,
             JsonDumps(<<"Build started and returned status '", status, "'">>))

\* src/lambda/app.py, the branch on build_status
ConfigBuildResponse(project, status) ==
    IF status \notin {"SUCCEEDED", "IN_PROGRESS"}
    THEN LambdaResponse(FALSE, 500,
             JsonDumps(<<"Failed to CodeBuild project '">> \o project
                       \o <<"', build status returned '", status, "'">>))
    ELSE LambdaResponse(FALSE, 200,
             JsonDumps(<<"Build started and returned status '", status, "'">>))

\* faulty variant: the failure message leaves the status out
NameBuildResponseNoStatus(project, status) ==
    IF status \notin {"SUCCEEDED", "IN_PROGRESS"}
    THEN LambdaResponse(FALSE, 500,
             JsonDumps(<<"Failed to CodeBuild project '">> \o project \o <<"'">>))
    ELSE LambdaResponse(FALSE, 200,
             JsonDumps(<<"Build started and returned status '", status, "'">>))

\* faulty variant: the success message differs from the other handler's
NameBuildResponseTerse(project, status) ==
    IF status \notin {"SUCCEEDED", "IN_PROGRESS"}
    THEN LambdaResponse(FALSE, 500,
             JsonDumps(<<"Failed to CodeBuild project '">> \o project
                       \o <<"', build status returned '", status, "'">>))
    ELSE LambdaResponse(FALSE, 200, JsonDumps(<<"Build started">>))

\* src/infra/lambda/app.py, the branch on build_status
NameBuildResponse(project, status) ==
    IF status \notin {"SUCCEEDED", "IN_PROGRESS"}
    THEN LambdaResponse(FALSE, 500,
             JsonDumps(<<"Failed to CodeBuild project '">> \o project
                       \o <<"', build status returned '", status, "'">>))
    ELSE LambdaResponse(FALSE, 200,
             JsonDumps(<<"Build started and returned status '", status, "'">>))

\* ------------------------------ the state -------------------------------
VARIABLES
    handler,            \* "config": src/lambda/app.py, "name": src/infra/lambda/app.py
    environ,            \* os.environ of the invocation
    event,              \* the S3 event notification
    pc,                 \* where the handler is
    s3_result,          \* how object.get() ended: "none", "ok", "ClientError", "BotoCoreError"
    config_binary,      \* the bytes read from S3
    config,             \* yaml.safe_load's result
    change_file,        \* the first record's object key
    base_folder,
    codebuild_project,
    calls,              \* the projectName of every start_build call, in order
    build_status,       \* build['build']['buildStatus'], "" before the call returns
    response,           \* the LambdaResponse returned
    raised              \* the exception that ended the invocation, "" if none

vars == <<handler, environ, event, pc, s3_result, config_binary, config, change_file,
          base_folder, codebuild_project, calls, build_status, response, raised>>

Unset == [py |-> "unset"]

ConfigEnvirons ==
    {[S3_BUCKET_NAME |-> <<"blog-deploy">>, S3_OBJECT_KEY |-> k] :
        k \in {<<"config.yml">>, <<"conf/my ", "\"", "cfg", "\"", ".yml">>}}

NameEnvirons == {[CODEBUILD_PROJECT |-> p] : p \in {SiteBuild, InfraBuild}}

Init ==
    /\ handler \in {"config", "name"}
    /\ environ \in IF handler = "config" THEN ConfigEnvirons ELSE NameEnvirons
    /\ event \in Events
    /\ pc = "start"
    /\ s3_result = "none"
    /\ config_binary = <<>>
    /\ config = Unset
    /\ change_file = <<>>
    /\ base_folder = <<>>
    /\ codebuild_project = <<>>
    /\ calls = <<>>
    /\ build_status = ""
    /\ response = NoResponse
    /\ raised = ""

\* an uncaught exception ends the invocation: nothing is returned
Raise(exc) ==
    /\ pc' = "fault"
    /\ raised' = exc

\* ---------------------- src/lambda/app.py: lambda_handler ----------------
\* faulty variant: the except branch does not return
FetchConfigFallThrough ==
    /\ handler = "config"
    /\ pc = "start"
    /\ \/ /\ s3_result' = "ClientError"
          /\ pc' = "fetched"
          /\ UNCHANGED <<config_binary, response, raised>>
       \/ /\ s3_result' = "BotoCoreError"
          /\ Raise("BotoCoreError")
          /\ UNCHANGED <<config_binary, response>>
       \/ \E file \in ConfigFiles :
            /\ s3_result' = "ok"
            /\ config_binary' = file
            /\ pc' = "fetched"
            /\ UNCHANGED <<response, raised>>
    /\ UNCHANGED <<handler, environ, event, config, change_file, base_folder,
                   codebuild_project, calls, build_status>>

\* faulty variant: no except branch, ClientError propagates
FetchConfigUncaught ==
    /\ handler = "config"
    /\ pc = "start"
    /\ \/ /\ s3_result' = "ClientError"
          /\ Raise("ClientError")
          /\ UNCHANGED <<config_binary, response>>
       \/ /\ s3_result' = "BotoCoreError"
          /\ Raise("BotoCoreError")
          /\ UNCHANGED <<config_binary, response>>
       \/ \E file \in ConfigFiles :
            /\ s3_result' = "ok"
            /\ config_binary' = file
            /\ pc' = "fetched"
            /\ UNCHANGED <<response, raised>>
    /\ UNCHANGED <<handler, environ, event, config, change_file, base_folder,
                   codebuild_project, calls, build_status>>

\* lines 43-57: read the configuration object; only ClientError is caught
FetchConfig ==
    /\ handler = "config"
    /\ pc = "start"
    /\ \/ /\ s3_result' = "ClientError"
          /\ response' = FailedToReadConfig(environ.S3_OBJECT_KEY, environ.S3_BUCKET_NAME)
          /\ pc' = "returned"
          /\ UNCHANGED <<config_binary, raised>>
       \/ /\ s3_result' = "BotoCoreError"
          /\ Raise("BotoCoreError")
          /\ UNCHANGED <<config_binary, response>>
       \/ \E file \in ConfigFiles :
            /\ s3_result' = "ok"
            /\ config_binary' = file
            /\ pc' = "fetched"
            /\ UNCHANGED <<response, raised>>
    /\ UNCHANGED <<handler, environ, event, config, change_file, base_folder,
                   codebuild_project, calls, build_status>>

\* line 59: config = yaml.safe_load(config_binary)
LoadConfig ==
    /\ handler = "config"
    /\ pc = "fetched"
    /\ LET loaded == SafeLoad(config_binary)
       IN  IF IsException(loaded)
           THEN Raise(loaded.py) /\ UNCHANGED config
           ELSE config' = loaded /\ pc' = "loaded" /\ UNCHANGED raised
    /\ UNCHANGED <<handler, environ, event, s3_result, config_binary, change_file,
                   base_folder, codebuild_project, calls, build_status, response>>

\* lines 61-67: the first record's key, its first segment, the project under it
ResolveProject ==
    /\ handler = "config"
    /\ pc = "loaded"
    /\ LET key == FirstObjectKey(event)
       IN  IF IsException(key)
           THEN /\ Raise(key.py)
                /\ UNCHANGED <<change_file, base_folder, codebuild_project>>
           ELSE LET folder == BaseFolder(key.s)
                    project == GetItem(GetItem(config, "Folder"), folder)
                IN  /\ change_file' = key.s
                    /\ IF IsException(project)
                       THEN /\ Raise(project.py)
                            /\ base_folder' = folder
                            /\ UNCHANGED codebuild_project
                       ELSE /\ base_folder' = folder
                            /\ codebuild_project' = project.s
                            /\ pc' = "resolved"
                            /\ UNCHANGED raised
    /\ UNCHANGED <<handler, environ, event, s3_result, config_binary, config,
                   calls, build_status, response>>

\* faulty variant: a rejected status is retried once
StartBuildRetry ==
    /\ handler = "config"
    /\ pc = "resolved"
    /\ calls' = Append(calls, codebuild_project)
    /\ \/ /\ Raise("ClientError")
          /\ UNCHANGED build_status
       \/ \E status \in BuildStatuses :
            /\ build_status' = status
            /\ pc' = IF status \in {"SUCCEEDED", "IN_PROGRESS"} \/ Len(calls) >= 1
                     THEN "built" ELSE "resolved"
            /\ UNCHANGED raised
    /\ UNCHANGED <<handler, environ, event, s3_result, config_binary, config,
                   change_file, base_folder, codebuild_project, response>>

\* lines 69-72: one start_build call; it returns a status or raises
StartBuild ==
    /\ handler = "config"
    /\ pc = "resolved"
    /\ calls' = Append(calls, codebuild_project)
    /\ \/ /\ Raise("ClientError")
          /\ UNCHANGED build_status
       \/ \E status \in BuildStatuses :
            /\ build_status' = status
            /\ pc' = "built"
            /\ UNCHANGED raised
    /\ UNCHANGED <<handler, environ, event, s3_result, config_binary, config,
                   change_file, base_folder, codebuild_project, response>>

\* lines 74-80: the response
Respond ==
    /\ handler = "config"
    /\ pc = "built"
    /\ response' = ConfigBuildResponse(codebuild_project, build_status)
    /\ pc' = "returned"
    /\ UNCHANGED <<handler, environ, event, s3_result, config_binary, config,
                   change_file, base_folder, codebuild_project, calls, build_status,
                   raised>>

\* ------------------- src/infra/lambda/app.py: lambda_handler -------------
\* lines 41-46: the project comes from the environment
NameStartBuild ==
    /\ handler = "name"
    /\ pc = "start"
    /\ calls' = Append(calls, environ.CODEBUILD_PROJECT)
    /\ \/ /\ Raise("ClientError")
          /\ UNCHANGED build_status
       \/ \E status \in BuildStatuses :
            /\ build_status' = status
            /\ pc' = "built"
            /\ UNCHANGED raised
    /\ UNCHANGED <<handler, environ, event, s3_result, config_binary, config,
                   change_file, base_folder, codebuild_project, response>>

\* lines 48-55: the response
NameRespond ==
    /\ handler = "name"
    /\ pc = "built"
    /\ response' = NameBuildResponse(environ.CODEBUILD_PROJECT, build_status)
    /\ pc' = "returned"
    /\ UNCHANGED <<handler, environ, event, s3_result, config_binary, config,
                   change_file, base_folder, codebuild_project, calls, build_status,
                   raised>>

Next ==
    \/ FetchConfig
    \/ LoadConfig
    \/ ResolveProject
    \/ StartBuild
    \/ Respond
    \/ NameStartBuild
    \/ NameRespond

Spec == Init /\ [][Next]_vars

\* ========================= properties of the handlers ====================
\* --- reference definitions, written apart from the handlers' operators ---
Accepted == {"SUCCEEDED", "IN_PROGRESS"}

\* t occurs in s
Contains(s, t) ==
    \E i \in 1..(Len(s) - Len(t) + 1) : SubSeq(s, i, i + Len(t) - 1) = t

\* the position of the first "/" of key, Len(key) + 1 if it has none
FirstSlash(key) ==
    IF \E i \in 1..Len(key) : key[i] = "/"
    THEN CHOOSE i \in 1..Len(key) : key[i] = "/" /\ \A j \in 1..(i - 1) : key[j] # "/"
    ELSE Len(key) + 1

FirstSegment(key) == SubSeq(key, 1, FirstSlash(key) - 1)

\* the text between the quotes of a JSON string is well escaped
RECURSIVE WellEscaped(_)
WellEscaped(s) ==
    IF s = <<>> THEN TRUE
    ELSE IF Head(s) = "\"" THEN FALSE
    ELSE IF Head(s) = "\\"
         THEN Len(s) >= 2 /\ s[2] \in {"\"", "\\"} /\ WellEscaped(Tail(Tail(s)))
    ELSE WellEscaped(Tail(s))

\* body is the JSON text of exactly one string
IsJsonString(body) ==
    /\ Len(body) >= 2
    /\ body[1] = "\""
    /\ body[Len(body)] = "\""
    /\ WellEscaped(SubSeq(body, 2, Len(body) - 1))

RECURSIVE Unescape(_)
Unescape(s) ==
    IF s = <<>> THEN <<>>
    ELSE IF Head(s) = "\\" /\ Len(s) >= 2 THEN <<s[2]>> \o Unescape(Tail(Tail(s)))
    ELSE <<Head(s)>> \o Unescape(Tail(s))

\* json.loads of a body that is a JSON string
JsonLoads(body) == Unescape(SubSeq(body, 2, Len(body) - 1))

Structured(r) ==
    /\ r.isBase64Encoded = FALSE
    /\ r.statusCode \in {200, 500}
    /\ IsJsonString(r.body)

HasFirstKey == Len(event.Records) >= 1 /\ "s3" \in DOMAIN event.Records[1]

EventKey == event.Records[1].s3.object.key

HasFolder == config.py = "dict" /\ "Folder" \in DOMAIN config.items

FolderIsMapping == HasFolder /\ config.items["Folder"].py = "dict"

\* the first record's first path segment is a key of the Folder mapping
ValidLookup ==
    /\ handler = "config"
    /\ FolderIsMapping
    /\ HasFirstKey
    /\ FirstSegment(EventKey) \in DOMAIN config.items["Folder"].items

ExpectedProject == config.items["Folder"].items[FirstSegment(EventKey)].s

\* the project the handler started the build of
StartedProject == IF handler = "config" THEN codebuild_project ELSE environ.CODEBUILD_PROJECT

\* C1: in both handlers, an invocation whose start_build call returned SUCCEEDED
\* or IN_PROGRESS returns a response with statusCode 200.
C1_AcceptedStatusReturns200 ==
    (pc = "returned" /\ build_status \in Accepted) => response.statusCode = 200

C1_Witness ==
    /\ handler = "config"
    /\ pc = "returned"
    /\ build_status = "IN_PROGRESS"
    /\ response.statusCode = 200

\* C2: in both handlers, an invocation whose start_build call returned any other
\* status returns statusCode 500 and a body that holds that status and the name
\* of the project that was started.
C2_RejectedStatusReturns500 ==
    (pc = "returned" /\ build_status # "" /\ build_status \notin Accepted) =>
        /\ response.statusCode = 500
        /\ IsJsonString(response.body)
        /\ Contains(JsonLoads(response.body), <<build_status>>)
        /\ Contains(JsonLoads(response.body), StartedProject)
        /\ calls = <<StartedProject>>

C2_Witness ==
    /\ handler = "name"
    /\ pc = "returned"
    /\ build_status = "FAILED"
    /\ environ.CODEBUILD_PROJECT = InfraBuild
    /\ response.statusCode = 500

C4_NeverRaisesUncaught ==
    handler = "config" => pc # "fault"

\* C4, amended: the config-driven handler returns a structured response on the two
\* failures it handles (a ClientError of the configuration fetch, a rejected build
\* status); every other failure ends the invocation with an uncaught exception
\* and no response.
C4_HandledFailuresReturn ==
    handler = "config" =>
        /\ s3_result = "ClientError" =>
              pc = "returned" /\ Structured(response) /\ response.statusCode = 500
        /\ (build_status # "" /\ build_status \notin Accepted) =>
              /\ pc \in {"built", "returned"}
              /\ pc = "returned" => Structured(response) /\ response.statusCode = 500
        /\ pc = "fault" =>
              /\ response = NoResponse
              /\ raised \in {"BotoCoreError", "YAMLError", "KeyError", "TypeError",
                             "IndexError", "ClientError"}
              /\ raised = "ClientError" => Len(calls) = 1
        /\ pc # "fault" => raised = ""

C4_Witness ==
    /\ handler = "config"
    /\ pc = "returned"
    /\ build_status = "TIMED_OUT"
    /\ response.statusCode = 500

\* C5: for a valid configuration and a first-record key whose first path segment is
\* a key of Folder, the config-driven handler calls start_build with
\* config["Folder"][segment] and with no other project name.
C5_ResolvedProjectIsFolderEntry ==
    (ValidLookup /\ pc # "loaded") =>
        /\ codebuild_project = ExpectedProject
        /\ pc = "resolved" => calls = <<>>
        /\ pc # "resolved" => calls = <<ExpectedProject>>

C5_Witness ==
    /\ ValidLookup
    /\ pc = "returned"
    /\ Len(event.Records) = 2
    /\ HasFirstKey
    /\ EventKey = <<"s", "i", "/">>
    /\ calls = <<InfraBuild>>

\* C6: the lookup key is the first record's object key up to, not including, its
\* first "/"; the whole key when it has no "/"; later records play no part.
C6_LookupKeyIsFirstSegment ==
    (handler = "config" /\ config.py = "dict" /\ pc # "loaded" /\ HasFirstKey) =>
        /\ change_file = EventKey
        /\ base_folder = FirstSegment(EventKey)
        /\ (\A i \in 1..Len(EventKey) : EventKey[i] # "/") => base_folder = EventKey
        /\ \A i \in 1..Len(base_folder) : base_folder[i] # "/"

C6_Witness ==
    /\ handler = "config"
    /\ pc = "returned"
    /\ Len(event.Records) = 2
    /\ "s3" \in DOMAIN event.Records[2]
    /\ event.Records[2].s3.object.key = <<"i">>
    /\ change_file = <<"s", "/", "i">>
    /\ base_folder = <<"s">>

\* C7 as stated: every invocation of the config-driven handler that returns a
\* response has started exactly one build.
C7_ExactlyOneBuild ==
    (handler = "config" /\ pc = "returned") => Len(calls) = 1

\* C7, amended: an invocation calls start_build at most once (no retries, whatever
\* status comes back): exactly once when it returns a response describing the
\* build's outcome, never when it returns the configuration-fetch failure.
C7_AtMostOneBuild ==
    /\ Len(calls) <= 1
    /\ build_status # "" => Len(calls) = 1
    /\ (handler = "config" /\ pc = "returned" /\ s3_result = "ok") =>
          Len(calls) = 1 /\ build_status # ""
    /\ (handler = "config" /\ pc = "returned" /\ s3_result = "ClientError") =>
          calls = <<>>

C7_Witness ==
    /\ handler = "config"
    /\ pc = "returned"
    /\ build_status = "FAILED"
    /\ calls = <<SiteBuild>>

\* C8: every response either handler returns has isBase64Encoded false, statusCode
\* 200 or 500, and a body that is the JSON text of exactly one string.
C8_ResponseShape ==
    pc = "returned" => Structured(response)

C8_Witness ==
    /\ pc = "returned"
    /\ handler = "config"
    /\ build_status = "FAILED"
    /\ codebuild_project = InfraBuild
    /\ Structured(response)

\* C9: for every project and status, the trigger-by-name handler returns the
\* response the config-driven handler returns once its lookup gave that project,
\* and each issues the same single start_build call.
C9_NameHandlerMatchesConfigHandler ==
    (pc = "returned" /\ build_status # "") =>
        /\ calls = <<StartedProject>>
        /\ handler = "name" =>
              response = ConfigBuildResponse(environ.CODEBUILD_PROJECT, build_status)
        /\ handler = "config" =>
              response = NameBuildResponse(codebuild_project, build_status)

C9_Witness ==
    /\ handler = "name"
    /\ pc = "returned"
    /\ build_status = "SUCCEEDED"
    /\ environ.CODEBUILD_PROJECT = SiteBuild

\* C10: when the fetch succeeded but the first record has no object key, or Folder
\* is absent, or the lookup segment is not a key of Folder, the invocation ends
\* with an uncaught exception before start_build: no call, no response.
C10_MissingKeyFaults ==
    (/\ handler = "config"
     /\ config.py = "dict"
     /\ pc # "loaded"
     /\ \/ ~HasFirstKey
        \/ ~HasFolder
        \/ FolderIsMapping /\ HasFirstKey
             /\ FirstSegment(EventKey) \notin DOMAIN config.items["Folder"].items) =>
        /\ pc = "fault"
        /\ raised \in {"KeyError", "IndexError"}
        /\ calls = <<>>
        /\ build_status = ""
        /\ response = NoResponse

C10_Witness ==
    /\ handler = "config"
    /\ pc = "fault"
    /\ raised = "KeyError"
    /\ FolderIsMapping
    /\ HasFirstKey
    /\ EventKey = <<"i", "/", "s">>
    /\ base_folder = <<"i">>
    /\ calls = <<>>

====
